---------------------------- MODULE Spec2Model ----------------------------
(***************************************************************************)
(* Model of GetInfoFromDatabases.py: the accessors of the run catalogue    *)
(* and of the DAQ database, and the week index of a date.                  *)
(*                                                                         *)
(* Times are whole seconds counted from 2011-05-01T00:00:00 (UTC), the     *)
(* first mandatory week break of the source; a timedelta is a difference   *)
(* of two times.  The module is Python 2 (Test.py uses the print           *)
(* statement), so delta_t.days/7 is the floor division of integers.        *)
(***************************************************************************)
EXTENDS Integers, Sequences, FiniteSets, TLC

VARIABLES
    catalog,              \* the run catalogue behind ROOT.EXORunInfoManager
    daqdb_connection,     \* the module global of line 12
    MandatoryWeekBreaks,  \* GetWeekOfDate.MandatoryWeekBreaks, line 195
    connectionsOpened,    \* number of connections MySQLdb.connect has returned
    breakLookups,         \* per reference run: start-time requests of GetWeekOfDate
    result                \* what the last call did and how it ended

vars == <<catalog, daqdb_connection, MandatoryWeekBreaks, connectionsOpened,
          breakLookups, result>>

---------------------------------------------------------------------------
(* Bounds of the model. *)

\* Query times reach MaxWeek whole weeks past every candidate break.
MaxWeek == 1
\* cursor.rowcount ranges over 0..MaxRows.
MaxRows == 3

---------------------------------------------------------------------------
(* Time. *)

SecondsPerDay == 86400
Day(n) == n * SecondsPerDay
Hour(n) == n * 3600

\* datetime.datetime(2011, 5, 1), the origin of the time axis.
EpochStart == 0

\* datetime.timedelta(seconds = 10)
shift_back == 10

\* timedelta.days: timedelta keeps 0 <= seconds < 86400, so days is the floor.
Days(delta_t) == delta_t \div SecondsPerDay

---------------------------------------------------------------------------
(* Python's None for the two lazily initialised globals.  An optional      *)
(* sequence is <<>> (None) or <<s>>; connections are numbered from 1.      *)

None == <<>>
Some(x) == <<x>>
NoConnection == 0

---------------------------------------------------------------------------
(* The run catalogue.  A start-time string is the 19 characters of         *)
(* "%Y-%m-%dT%H:%M:%S" for `stamp`, with `cut` characters missing at its   *)
(* end, followed by `tail` further characters (".000" and "+0000" in a     *)
(* well-formed entry).                                                     *)

StampLen == 19

String(stamp, tail) == [stamp |-> stamp, cut |-> 0, tail |-> tail]

\* s[:-n]
DropLast(s, n) ==
    IF s.tail >= n
    THEN [s EXCEPT !.tail = @ - n]
    ELSE [s EXCEPT !.tail = 0,
                   !.cut = IF @ + (n - s.tail) > StampLen THEN StampLen
                           ELSE @ + (n - s.tail)]

\* datetime.datetime.strptime(s, "%Y-%m-%dT%H:%M:%S"): %S also accepts a single
\* digit, so a string that lost the last digit of its seconds still parses.
strptime(s) ==
    IF s.tail = 0 /\ s.cut = 0
    THEN [exc |-> "", raisedAt |-> 0, time |-> s.stamp]
    ELSE IF s.tail = 0 /\ s.cut = 1
    THEN [exc |-> "", raisedAt |-> 0,
          time |-> s.stamp - (s.stamp % 60) + ((s.stamp % 60) \div 10)]
    ELSE [exc |-> "ValueError", raisedAt |-> 91, time |-> 0]

SourceRunType == "Data-Source calibration"
ThoriumSourceTypes == {"Th-228:weak", "Th-228:strong"}

\* ReferenceRuns with the last two lookups exchanged.
ReferenceRunsSwapped == <<2332, 2424, 2401>>

\* The runs whose start times place the mandatory week breaks.
ReferenceRuns == <<2332, 2401, 2424>>
Runs == {ReferenceRuns[k] : k \in 1..Len(ReferenceRuns)}

NotCatalogued ==
    [catalogued |-> FALSE, runType |-> "", sourceType |-> "",
     sourcePosition |-> "", startTime |-> String(0, 0)]

Entry(runType, sourceType, sourcePosition, startTime) ==
    [catalogued |-> TRUE, runType |-> runType, sourceType |-> sourceType,
     sourcePosition |-> sourcePosition, startTime |-> startTime]

\* What GetDataRunInfo may hold for a run.
CatalogEntries ==
    { NotCatalogued,
      Entry("Data-Physics", "", "", String(Day(14) + shift_back, 9)),
      Entry(SourceRunType, "Th-228:weak", "S5", String(Day(17) + shift_back, 9)),
      Entry(SourceRunType, "Co-60:weak", "S2",
            String(Day(30) + Hour(12) + shift_back, 9)),
      Entry(SourceRunType, "Th-228:strong", "S11", String(Day(17) + shift_back, 5)) }

---------------------------------------------------------------------------
(* Outcomes of calls: exc is "" for a return, else the exception class.    *)

\* raisedAt is the source line of the raise (0 for a return).
Return(value) == [exc |-> "", raisedAt |-> 0, text |-> value]
Raise(exc, line) == [exc |-> exc, raisedAt |-> line, text |-> ""]

\* GetRunInfo, lines 215-221
GetRunInfo(runNo) ==
    IF catalog[runNo].catalogued
    THEN [exc |-> "", raisedAt |-> 0, info |-> catalog[runNo]]
    ELSE [exc |-> "DataError", raisedAt |-> 220, info |-> NotCatalogued]

\* GetTypeOfRun, lines 27-33
TypeOfRun(runNo) ==
    LET runInfo == GetRunInfo(runNo)
    IN  IF runInfo.exc # "" THEN Raise(runInfo.exc, runInfo.raisedAt)
        ELSE Return(runInfo.info.runType)

\* GetSourceTypeOfRun without its check of the run type.
SourceTypeOfRunUnchecked(runNo) ==
    LET runInfo == GetRunInfo(runNo)
    IN  IF runInfo.exc # "" THEN Raise(runInfo.exc, runInfo.raisedAt)
        ELSE Return(runInfo.info.sourceType)

\* GetSourceTypeOfRun, lines 71-79
SourceTypeOfRun(runNo) ==
    LET runType == TypeOfRun(runNo)
    IN  IF runType.exc # "" THEN runType
        ELSE IF runType.text # SourceRunType THEN Raise("ValueError", 78)
        ELSE Return(GetRunInfo(runNo).info.sourceType)

\* GetNominalSourceLocationOfRun, lines 35-44
NominalSourceLocationOfRun(runNo) ==
    LET runType == TypeOfRun(runNo)
    IN  IF runType.exc # "" THEN runType
        ELSE IF runType.text # SourceRunType THEN Raise("ValueError", 43)
        ELSE Return(GetRunInfo(runNo).info.sourcePosition)

\* GetStartTimeOfRun, lines 81-92
StartTimeOfRun(runNo) ==
    LET runInfo == GetRunInfo(runNo)
    IN  IF runInfo.exc # ""
        THEN [exc |-> runInfo.exc, raisedAt |-> runInfo.raisedAt, time |-> 0]
        ELSE strptime(DropLast(DropLast(runInfo.info.startTime, 5), 4))

\* The breaks the catalogue's entries can place, and the times asked about:
\* whole weeks after the epoch and after each such break, and the second before.
BreakCandidates ==
    { t.time - shift_back :
        t \in { u \in { strptime(DropLast(DropLast(e.startTime, 5), 4)) :
                          e \in CatalogEntries } : u.exc = "" } }

QueryTimes ==
    { b + Day(7 * w) + o :
        b \in {EpochStart} \cup BreakCandidates, w \in 0..MaxWeek, o \in {-1, 0} }

---------------------------------------------------------------------------
(* The week index, lines 140-195. *)

\* Lines 154-168: the epoch, then StartTime(run) - 10 s for each reference run
\* in turn; an exception of a lookup leaves what was appended so far.
RECURSIVE AppendBreaks(_, _)
AppendBreaks(breaks, k) ==
    IF k > Len(ReferenceRuns)
    THEN [exc |-> "", raisedAt |-> 0, breaks |-> breaks, lookups |-> k - 1]
    ELSE LET startTime == StartTimeOfRun(ReferenceRuns[k])
         IN  IF startTime.exc # ""
             THEN [exc |-> startTime.exc, raisedAt |-> startTime.raisedAt,
                   breaks |-> breaks, lookups |-> k]
             ELSE AppendBreaks(Append(breaks, startTime.time - shift_back), k + 1)

BuildWeekBreaks == AppendBreaks(<<EpochStart>>, 1)

\* The test of line 153 taking an incomplete list for a missing one.
NeedsWeekBreaksIfIncomplete ==
    \/ MandatoryWeekBreaks = None
    \/ Len(MandatoryWeekBreaks[1]) < 1 + Len(ReferenceRuns)

\* Line 153
NeedsWeekBreaks == MandatoryWeekBreaks = None

\* The loop returning int(delta_t.days/7) without num_leading_weeks.
RECURSIVE WalkBreaksNoCarry(_, _, _, _)
WalkBreaksNoCarry(breaks, time, i, num_leading_weeks) ==
    IF i > Len(breaks) - 1
    THEN Days(time - breaks[Len(breaks)]) \div 7
    ELSE IF time >= breaks[i] /\ time < breaks[i + 1]
    THEN Days(time - breaks[i]) \div 7
    ELSE WalkBreaksNoCarry(breaks, time, i + 1,
                           num_leading_weeks + Days(breaks[i + 1] - breaks[i]) \div 7 + 1)

\* The loop tallying int(delta_t.days/7) without the + 1 of line 187.
RECURSIVE WalkBreaksNoPlusOne(_, _, _, _)
WalkBreaksNoPlusOne(breaks, time, i, num_leading_weeks) ==
    IF i > Len(breaks) - 1
    THEN Days(time - breaks[Len(breaks)]) \div 7 + num_leading_weeks
    ELSE IF time >= breaks[i] /\ time < breaks[i + 1]
    THEN Days(time - breaks[i]) \div 7 + num_leading_weeks
    ELSE WalkBreaksNoPlusOne(breaks, time, i + 1,
                             num_leading_weeks + Days(breaks[i + 1] - breaks[i]) \div 7)

\* The loop with the test of line 181 as time <= MandatoryWeekBreaks[i+1].
RECURSIVE WalkBreaksClosedEnd(_, _, _, _)
WalkBreaksClosedEnd(breaks, time, i, num_leading_weeks) ==
    IF i > Len(breaks) - 1
    THEN Days(time - breaks[Len(breaks)]) \div 7 + num_leading_weeks
    ELSE IF time >= breaks[i] /\ time <= breaks[i + 1]
    THEN Days(time - breaks[i]) \div 7 + num_leading_weeks
    ELSE WalkBreaksClosedEnd(breaks, time, i + 1,
                             num_leading_weeks + Days(breaks[i + 1] - breaks[i]) \div 7 + 1)

\* Lines 172-191: the loop over consecutive breaks, from index i (1-based) with
\* num_leading_weeks accumulated so far.
RECURSIVE WalkBreaks(_, _, _, _)
WalkBreaks(breaks, time, i, num_leading_weeks) ==
    IF i > Len(breaks) - 1
    THEN Days(time - breaks[Len(breaks)]) \div 7 + num_leading_weeks
    ELSE IF time >= breaks[i] /\ time < breaks[i + 1]
    THEN Days(time - breaks[i]) \div 7 + num_leading_weeks
    ELSE WalkBreaks(breaks, time, i + 1,
                    num_leading_weeks + Days(breaks[i + 1] - breaks[i]) \div 7 + 1)

WeekIndex(breaks, time) == WalkBreaks(breaks, time, 1, 0)

\* GetWeekOfDate without the test of line 174.
WeekOfDateNoStartCheck(isDatetime, time) ==
    LET init == IF NeedsWeekBreaks THEN BuildWeekBreaks
                ELSE [exc |-> "", raisedAt |-> 0,
                      breaks |-> MandatoryWeekBreaks[1], lookups |-> 0]
        end  == IF init.exc # ""
                THEN [exc |-> init.exc, raisedAt |-> init.raisedAt, week |-> -1]
                ELSE IF ~isDatetime
                THEN [exc |-> "TypeError", raisedAt |-> 171, week |-> -1]
                ELSE [exc |-> "", raisedAt |-> 0, week |-> WeekIndex(init.breaks, time)]
    IN  [breaks |-> Some(init.breaks), lookups |-> init.lookups,
         exc |-> end.exc, raisedAt |-> end.raisedAt, week |-> end.week]

\* GetWeekOfDate(time), lines 140-191: the new value of MandatoryWeekBreaks and
\* how the call ends (week is -1 when no week index is returned).
WeekOfDate(isDatetime, time) ==
    LET init == IF NeedsWeekBreaks THEN BuildWeekBreaks
                ELSE [exc |-> "", raisedAt |-> 0,
                      breaks |-> MandatoryWeekBreaks[1], lookups |-> 0]
        end  == IF init.exc # ""
                THEN [exc |-> init.exc, raisedAt |-> init.raisedAt, week |-> -1]
                ELSE IF ~isDatetime
                THEN [exc |-> "TypeError", raisedAt |-> 171, week |-> -1]
                ELSE IF time < init.breaks[1]
                THEN [exc |-> "ValueError", raisedAt |-> 175, week |-> -1]
                ELSE [exc |-> "", raisedAt |-> 0, week |-> WeekIndex(init.breaks, time)]
    IN  [breaks |-> Some(init.breaks), lookups |-> init.lookups,
         exc |-> end.exc, raisedAt |-> end.raisedAt, week |-> end.week]

---------------------------------------------------------------------------
(* The DAQ database, lines 12-21. *)

\* MakeDAQConnection without the test of line 16.
MakeDAQConnectionAlways(connectOk) ==
    IF connectOk
    THEN [exc |-> "", raisedAt |-> 0, conn |-> connectionsOpened + 1,
          opened |-> 1, connects |-> 1]
    ELSE [exc |-> "OperationalError", raisedAt |-> 17, conn |-> daqdb_connection,
          opened |-> 0, connects |-> 1]

\* MakeDAQConnection, lines 13-21: MySQLdb.connect either returns a new
\* connection or raises, leaving the global as it was.
MakeDAQConnection(connectOk) ==
    IF daqdb_connection = NoConnection
    THEN IF connectOk
         THEN [exc |-> "", raisedAt |-> 0, conn |-> connectionsOpened + 1,
               opened |-> 1, connects |-> 1]
         ELSE [exc |-> "OperationalError", raisedAt |-> 17, conn |-> NoConnection,
               opened |-> 0, connects |-> 1]
    ELSE [exc |-> "", raisedAt |-> 0, conn |-> daqdb_connection,
          opened |-> 0, connects |-> 0]

\* The test on cursor.rowcount as rowcount < expected.
RowCountTooSmall(rowcount, expected) == rowcount < expected

\* Lines 62, 116 and 208: the test on cursor.rowcount.
RowCountError(rowcount, expected) == rowcount # expected

---------------------------------------------------------------------------
(* The calls.  `result` records the last one: its name and argument, how   *)
(* it ended, and what it did on the way.                                   *)

NoCall ==
    [op |-> "", runNo |-> 0, isDatetime |-> FALSE, time |-> 0,
     exc |-> "", raisedAt |-> 0, week |-> -1, text |-> "",
     connects |-> 0, executes |-> 0, cursorConn |-> NoConnection, rowcount |-> 0,
     lookups |-> 0]

\* A call that ends with `out` having touched the run catalogue alone.
CatalogCall(op, runNo, out) ==
    /\ result' = [NoCall EXCEPT !.op = op, !.runNo = runNo, !.exc = out.exc,
                                !.raisedAt = out.raisedAt, !.text = out.text]
    /\ UNCHANGED <<catalog, daqdb_connection, MandatoryWeekBreaks,
                   connectionsOpened, breakLookups>>

\* MakeDAQConnection(), cursor.execute(...), the test of cursor.rowcount at
\* `line`, and the value made of the fetched rows.  MySQLdb.connect is called,
\* and may fail, only when there is no connection yet; the query runs, and has
\* a row count, only with a connection.
Select(op, runNo, expected, line, value) ==
    \E connectOk \in IF daqdb_connection = NoConnection THEN BOOLEAN ELSE {TRUE} :
        LET c == MakeDAQConnection(connectOk)
            call == [NoCall EXCEPT !.op = op, !.runNo = runNo,
                                   !.connects = c.connects]
        IN  \E rowcount \in IF c.exc # "" THEN {0} ELSE 0..MaxRows :
                /\ daqdb_connection' = c.conn
                /\ connectionsOpened' = connectionsOpened + c.opened
                /\ result' =
                     IF c.exc # ""
                     THEN [call EXCEPT !.exc = c.exc, !.raisedAt = c.raisedAt]
                     ELSE IF RowCountError(rowcount, expected)
                     THEN [call EXCEPT !.executes = 1, !.cursorConn = c.conn,
                                       !.rowcount = rowcount,
                                       !.exc = "DataError", !.raisedAt = line]
                     ELSE [call EXCEPT !.executes = 1, !.cursorConn = c.conn,
                                       !.rowcount = rowcount, !.text = value]
                /\ UNCHANGED <<catalog, MandatoryWeekBreaks, breakLookups>>

\* Lines 27-33
GetTypeOfRun(runNo) == CatalogCall("GetTypeOfRun", runNo, TypeOfRun(runNo))

\* Lines 35-44
GetNominalSourceLocationOfRun(runNo) ==
    CatalogCall("GetNominalSourceLocationOfRun", runNo,
                NominalSourceLocationOfRun(runNo))

\* Lines 53-56: the check made before the DAQ database is asked.
ComptonPrecondition(runNo) ==
    LET runType == TypeOfRun(runNo)
    IN  IF runType.exc # "" THEN runType
        ELSE IF runType.text # SourceRunType THEN Raise("ValueError", 56)
        ELSE Return("")

\* Lines 46-69
GetComptonSourceLocationOfRun(runNo) ==
    LET pre == ComptonPrecondition(runNo)
    IN  IF pre.exc # ""
        THEN CatalogCall("GetComptonSourceLocationOfRun", runNo, pre)
        ELSE Select("GetComptonSourceLocationOfRun", runNo, 3, 63, "pos")

\* Lines 71-79
GetSourceTypeOfRun(runNo) ==
    CatalogCall("GetSourceTypeOfRun", runNo, SourceTypeOfRun(runNo))

\* Lines 81-92
GetStartTimeOfRun(runNo) ==
    LET startTime == StartTimeOfRun(runNo)
    IN  /\ result' = [NoCall EXCEPT !.op = "GetStartTimeOfRun", !.runNo = runNo,
                                    !.exc = startTime.exc,
                                    !.raisedAt = startTime.raisedAt,
                                    !.time = startTime.time]
        /\ UNCHANGED <<catalog, daqdb_connection, MandatoryWeekBreaks,
                       connectionsOpened, breakLookups>>

\* Lines 107-109: `or` evaluates GetSourceTypeOfRun only for a source run.
PurityPrecondition(runNo) ==
    LET runType == TypeOfRun(runNo)
        sourceType == SourceTypeOfRun(runNo)
    IN  IF runType.exc # "" THEN runType
        ELSE IF runType.text # SourceRunType THEN Raise("ValueError", 109)
        ELSE IF sourceType.exc # "" THEN sourceType
        ELSE IF sourceType.text \notin ThoriumSourceTypes
        THEN Raise("ValueError", 109)
        ELSE Return("")

\* Lines 100-119
GetPurityOfRun(runNo) ==
    LET pre == PurityPrecondition(runNo)
    IN  IF pre.exc # ""
        THEN CatalogCall("GetPurityOfRun", runNo, pre)
        ELSE Select("GetPurityOfRun", runNo, 1, 117, "tau")

\* Lines 197-213
GetPhysicsTriggerFileOfRun(runNo) ==
    Select("GetPhysicsTriggerFileOfRun", runNo, 1, 209, "file")

\* The effect of GetWeekOfDate on the module's state, under the name `op`.
WeekCall(op, runNo, isDatetime, time) ==
    LET w == WeekOfDate(isDatetime, time)
    IN  /\ MandatoryWeekBreaks' = w.breaks
        /\ breakLookups' =
             [k \in DOMAIN breakLookups |->
                 breakLookups[k] + IF k <= w.lookups THEN 1 ELSE 0]
        /\ result' = [NoCall EXCEPT !.op = op, !.runNo = runNo,
                                    !.isDatetime = isDatetime, !.time = time,
                                    !.exc = w.exc, !.raisedAt = w.raisedAt,
                                    !.week = w.week, !.lookups = w.lookups]
        /\ UNCHANGED <<catalog, daqdb_connection, connectionsOpened>>

\* Lines 140-191; a non-datetime argument carries no time.
GetWeekOfDate(isDatetime, time) == WeekCall("GetWeekOfDate", 0, isDatetime, time)

\* Lines 94-98
GetWeekOfRun(runNo) ==
    LET runTime == StartTimeOfRun(runNo)
    IN  IF runTime.exc # ""
        THEN CatalogCall("GetWeekOfRun", runNo, Raise(runTime.exc, runTime.raisedAt))
        ELSE WeekCall("GetWeekOfRun", runNo, TRUE, runTime.time)

---------------------------------------------------------------------------

\* The module as imported: no connection (line 12), no breaks (line 195).
Init ==
    /\ catalog \in [Runs -> CatalogEntries]
    /\ daqdb_connection = NoConnection
    /\ MandatoryWeekBreaks = None
    /\ connectionsOpened = 0
    /\ breakLookups = [k \in 1..Len(ReferenceRuns) |-> 0]
    /\ result = NoCall

Next ==
    \/ \E runNo \in Runs : GetTypeOfRun(runNo)
    \/ \E runNo \in Runs : GetNominalSourceLocationOfRun(runNo)
    \/ \E runNo \in Runs : GetComptonSourceLocationOfRun(runNo)
    \/ \E runNo \in Runs : GetSourceTypeOfRun(runNo)
    \/ \E runNo \in Runs : GetStartTimeOfRun(runNo)
    \/ \E runNo \in Runs : GetWeekOfRun(runNo)
    \/ \E runNo \in Runs : GetPurityOfRun(runNo)
    \/ \E time \in QueryTimes : GetWeekOfDate(TRUE, time)
    \/ GetWeekOfDate(FALSE, 0)
    \/ \E runNo \in Runs : GetPhysicsTriggerFileOfRun(runNo)

Spec == Init /\ [][Next]_vars

---------------------------------------------------------------------------
(* Properties. *)

Built == MandatoryWeekBreaks # None
Breaks == MandatoryWeekBreaks[1]

StrictlyIncreasing(breaks) ==
    \A i \in 1..(Len(breaks) - 1) : breaks[i] < breaks[i + 1]

\* The last call was GetWeekOfDate and it returned a week index.
WeekReturned == result.op = "GetWeekOfDate" /\ result.exc = ""

\* The last call raised out of a start-time lookup (GetRunInfo or strptime).
LookupFailed == result.raisedAt \in {220, 91}

\* C1: with a strictly increasing break list, the week index returned for a
\* time is at least the week index of every earlier time from the first break
\* on, and at most that of every later time, in whatever intervals they lie.
C1_WeekMonotonic ==
    (WeekReturned /\ StrictlyIncreasing(Breaks)) =>
        \A t \in QueryTimes :
            /\ (Breaks[1] <= t /\ t <= result.time) =>
                   WeekIndex(Breaks, t) <= result.week
            /\ result.time <= t => result.week <= WeekIndex(Breaks, t)

\* A time after the last of four increasing breaks got a larger week index
\* than a time of the first interval.
C1_Witness ==
    /\ WeekReturned
    /\ Len(Breaks) = 4 /\ StrictlyIncreasing(Breaks)
    /\ result.time >= Breaks[4]
    /\ \E t \in QueryTimes :
          Breaks[1] <= t /\ t < Breaks[2] /\ WeekIndex(Breaks, t) < result.week

\* The break list begins 2011-05-01, + 14 days, + 17 days and is increasing (a
\* complete list has a later fourth entry, which the walk never reaches for a
\* time before the third).
SyntheticBreaks ==
    /\ Built
    /\ Len(Breaks) >= 3
    /\ SubSeq(Breaks, 1, 3) = <<EpochStart, Day(14), Day(17)>>
    /\ StrictlyIncreasing(Breaks)

\* C2 as claimed: with breaks 2011-05-01, + 14 days, + 17 days, the time
\* 2011-05-01 + 14 days has week index 2.
C2_WeekAtBreakIsTwo ==
    (WeekReturned /\ SyntheticBreaks /\ result.time = Day(14)) => result.week = 2

\* C2 as amended: with those breaks, the time 2011-05-01 + 14 days has week
\* index 3: the 14 days before the break count as 14/7 + 1 = 3 weeks, and the
\* time is the first instant of the interval that starts at the break.
C2_WeekAtBreakIsThree ==
    (WeekReturned /\ SyntheticBreaks /\ result.time = Day(14)) => result.week = 3

\* GetWeekOfDate returned for 2011-05-01 + 14 days with those breaks.
C2_Witness ==
    WeekReturned /\ SyntheticBreaks /\ result.time = Day(14) /\ result.week >= 0

\* The largest index i with breaks[i] <= time.
LastBreakAtOrBefore(breaks, time) ==
    CHOOSE i \in 1..Len(breaks) :
        /\ breaks[i] <= time
        /\ \A j \in 1..Len(breaks) : breaks[j] <= time => j <= i

\* Sum over j < i of floor(wholeDays(breaks[j+1] - breaks[j]) / 7) + 1.
RECURSIVE WeeksBefore(_, _)
WeeksBefore(breaks, i) ==
    IF i = 1 THEN 0
    ELSE WeeksBefore(breaks, i - 1) + (Days(breaks[i] - breaks[i - 1]) \div 7) + 1

\* C3: with a strictly increasing break list, a call for a time at or after the
\* first break (whose lookups, if any, succeeded) returns
\* floor(wholeDays(time - B[i]) / 7) + sum over j < i of
\* (floor(wholeDays(B[j+1] - B[j]) / 7) + 1), i the largest index with
\* B[i] <= time, and that is an integer >= 0.
C3_WeekClosedForm ==
    ( /\ result.op = "GetWeekOfDate" /\ result.isDatetime
      /\ ~LookupFailed
      /\ StrictlyIncreasing(Breaks)
      /\ result.time >= Breaks[1] ) =>
        LET i == LastBreakAtOrBefore(Breaks, result.time)
        IN  /\ result.exc = ""
            /\ result.week =
                 (Days(result.time - Breaks[i]) \div 7) + WeeksBefore(Breaks, i)
            /\ result.week >= 0

\* A week index was returned for a time equal to the third of four increasing
\* breaks.
C3_Witness ==
    /\ WeekReturned
    /\ Len(Breaks) = 4 /\ StrictlyIncreasing(Breaks)
    /\ result.time = Breaks[3]
    /\ result.week = WeeksBefore(Breaks, 3)

\* C4 as claimed: a call of GetWeekOfDate with a non-timestamp ends in a
\* TypeError, one with a timestamp before the first break ends in the
\* ValueError of line 175, and a week index is returned only for a timestamp at
\* or after the first break.
C4_AlwaysValidationError ==
    result.op = "GetWeekOfDate" =>
        /\ ~result.isDatetime => result.exc = "TypeError"
        /\ (result.isDatetime /\ result.time < Breaks[1]) =>
               (result.exc = "ValueError" /\ result.raisedAt = 175)
        /\ result.exc = "" => (result.isDatetime /\ result.time >= Breaks[1])

\* C4 as amended: the same, except in the call that builds the break list when
\* a start-time lookup of a reference run raises: then that lookup's exception
\* is what the call raises.  In no case is a week index returned for a
\* non-timestamp or for a timestamp before the first break.
C4_ValidationUnlessLookupFails ==
    result.op = "GetWeekOfDate" =>
        /\ (~LookupFailed /\ ~result.isDatetime) =>
               (result.exc = "TypeError" /\ result.raisedAt = 171)
        /\ (~LookupFailed /\ result.isDatetime /\ result.time < Breaks[1]) =>
               (result.exc = "ValueError" /\ result.raisedAt = 175)
        /\ LookupFailed =>
               /\ result.lookups > 0
               /\ result.exc \in {"DataError", "ValueError"}
        /\ (~result.isDatetime \/ result.time < Breaks[1]) =>
               (result.exc # "" /\ result.week = -1)
        /\ result.exc = "" => (result.isDatetime /\ result.time >= Breaks[1])

\* A timestamp one second before the first break was refused at line 175.
C4_Witness ==
    /\ result.op = "GetWeekOfDate" /\ result.isDatetime
    /\ result.time = Breaks[1] - 1
    /\ result.exc = "ValueError" /\ result.raisedAt = 175

\* C5: GetWeekOfDate requests the start time of each reference run at most once
\* in all, and once the break list is set no call changes it or requests a
\* start time for it, whether the call returns or raises.
C5_BreaksBuiltOnce ==
    [][ /\ \A k \in DOMAIN breakLookups : breakLookups'[k] <= 1
        /\ Built =>
             /\ MandatoryWeekBreaks' = MandatoryWeekBreaks
             /\ breakLookups' = breakLookups
             /\ result'.lookups = 0 ]_vars

\* A call of GetWeekOfDate returned without a lookup, all three start times
\* having been requested once before.
C5_Witness ==
    /\ WeekReturned
    /\ result.lookups = 0
    /\ \A k \in DOMAIN breakLookups : breakLookups[k] = 1

\* C6: GetNominalSourceLocationOfRun, GetSourceTypeOfRun and GetPurityOfRun on
\* a catalogued run whose type is not "Data-Source calibration" raise
\* ValueError having neither connected to the DAQ database nor run a query.
C6_NoQueryForNonSourceRun ==
    ( /\ result.op \in {"GetNominalSourceLocationOfRun", "GetSourceTypeOfRun",
                        "GetPurityOfRun"}
      /\ catalog[result.runNo].catalogued
      /\ catalog[result.runNo].runType # SourceRunType ) =>
        /\ result.exc = "ValueError"
        /\ result.connects = 0
        /\ result.executes = 0

\* GetPurityOfRun refused a catalogued run that is not a source run.
C6_Witness ==
    /\ result.op = "GetPurityOfRun"
    /\ catalog[result.runNo].catalogued
    /\ catalog[result.runNo].runType # SourceRunType
    /\ result.exc = "ValueError"

\* C7: when the query of GetPurityOfRun or of GetPhysicsTriggerFileOfRun has a
\* row count other than 1, the call raises DataError, returns no value and has
\* run the query once.
C7_RowCountError ==
    ( /\ result.op \in {"GetPurityOfRun", "GetPhysicsTriggerFileOfRun"}
      /\ result.executes >= 1
      /\ result.rowcount # 1 ) =>
        /\ result.exc = "DataError"
        /\ result.text = ""
        /\ result.executes = 1

\* The purity query found two rows.
C7_Witness ==
    /\ result.op = "GetPurityOfRun"
    /\ result.executes = 1 /\ result.rowcount = 2
    /\ result.exc = "DataError"

\* The catalogue's start times of the reference runs parse and are in order:
\* 2011-05-01 + 10 s < StartTime(2332) < StartTime(2401) < StartTime(2424).
StartTimesInOrder ==
    /\ \A runNo \in {2332, 2401, 2424} : StartTimeOfRun(runNo).exc = ""
    /\ EpochStart + shift_back < StartTimeOfRun(2332).time
    /\ StartTimeOfRun(2332).time < StartTimeOfRun(2401).time
    /\ StartTimeOfRun(2401).time < StartTimeOfRun(2424).time

\* C8 as claimed: a break list that has been built is strictly increasing.
C8_BreaksIncreasing == Built => StrictlyIncreasing(Breaks)

\* C8 as amended: a break list that has been built is strictly increasing when
\* the catalogue's start times of runs 2332, 2401 and 2424 are in that order and
\* more than 10 s after 2011-05-01; the construction neither orders nor checks
\* them.
C8_BreaksIncreasingIfStartTimesAre ==
    (Built /\ StartTimesInOrder) => StrictlyIncreasing(Breaks)

\* The four breaks were built from start times in order.
C8_Witness == Built /\ StartTimesInOrder /\ Len(Breaks) = 4

\* C9: once daqdb_connection is set, no call opens a connection or replaces
\* it, and a query that runs uses it.
C9_ConnectionOpenedOnce ==
    [][ /\ connectionsOpened' <= 1
        /\ daqdb_connection # NoConnection =>
             /\ daqdb_connection' = daqdb_connection
             /\ connectionsOpened' = connectionsOpened
             /\ result'.connects = 0
             /\ result'.executes > 0 => result'.cursorConn = daqdb_connection ]_vars

\* A query ran on a connection that an earlier call had opened.
C9_Witness ==
    /\ daqdb_connection # NoConnection
    /\ connectionsOpened = 1
    /\ result.executes = 1 /\ result.connects = 0
    /\ result.cursorConn = daqdb_connection

\* C10: the break list is unset or has its four entries.
C10_BreaksUnsetOrComplete ==
    Built => Len(Breaks) = 1 + Len(ReferenceRuns)

===========================================================================
